---- MODULE Spec2Model ----
(***************************************************************************)
(* TabTalk: routing and session life cycle of WindowManager, the message   *)
(* envelope WindowMessage, and the WindowSession operations the manager    *)
(* calls.  A router is identified with its window; its uuid is its node    *)
(* number.  Every handler is a pure operator from a world (the record of   *)
(* all state) to the world after the handler ran to completion; an action  *)
(* applies one public call or one "message" event.                         *)
(***************************************************************************)
EXTENDS Integers, Sequences, FiniteSets, TLC

VARIABLES
    sessions,     \* [Node -> Seq([key, ref])]: WindowManager.sessions, insertion order
    heap,         \* [Node -> Seq(session)]: the WindowSession objects a window created
    collectors,   \* [Node -> Seq(collector)]: lookup()'s temporary listeners
    chan,         \* [Node \X Node -> Seq(envelope)]: postMessage events not yet dispatched
    callbacks,    \* [router, session |-> BOOLEAN]: whether the callback slots are set
    fired,        \* callbacks and errors of the last step, in order
    out,          \* envelopes posted by the last step, in order
    finished,     \* [Node -> [lookup -> Seq(onFinish invocation)]]
    lookups,      \* [Node -> Nat]: lookup() calls made so far
    opened,       \* [Node -> Seq([type, ref])]: results of openSession since the last close
    tally,        \* [Node -> [Payload -> [delivered, relayed, called]]], per broadcast
    casts,        \* Seq(Node): the caller of the k-th broadcast()
    heard,        \* [Node -> [lookup -> Seq(response)]]: what its collector was handed
    closes,       \* Nat: close() calls made so far
    opener,       \* [Node -> Node, 0 or -1]: window.opener; -1 for a window not opened yet
    disposed,     \* [Node -> BOOLEAN]: the manager's listeners were detached by dispose()
    issued,       \* Seq([at, ref]): the session of the k-th application send
    wire,         \* Seq([at, payload]): the MESSAGE envelopes posted, in order
    step          \* what the last step was

vars == <<sessions, heap, collectors, chan, callbacks, fired, out, finished,
          lookups, opened, tally, casts, heard, closes, opener, disposed, issued, wire, step>>

(***************************************************************************)
(* Bounds                                                                  *)
(***************************************************************************)
NumNodes == 5
NumLeaves == 3
MaxBroadcasts == 2
MaxLookups == 1
MaxOpens == 2
MaxCloses == 1
MaxHops == 2
MaxSends == 2
MaxRelayOpens == 3
MaxRelayCloses == 2
MaxPath == 6

Node == 1..NumNodes
Payload == 1..MaxBroadcasts
\* The lookups of a window, in the order of the calls.
LookupIds == 1..(MaxLookups + MaxOpens)

\* JavaScript undefined / null for uuids, types and object references.
Undefined == 0
Null == 0
\* undefined in a data or authentication argument.
NoData == [undefined |-> TRUE]

(***************************************************************************)
(* WindowMessage                                                           *)
(***************************************************************************)
READY == 0
CLOSED == 1
LOOKUP == 2
MESSAGE == 3
BROADCAST == 4
LOOKUP_FOUND == 5
LOOKUP_NOT_FOUND == 6
CONNECT == 7

Optional(name, value, absent) == IF value # absent THEN name :> value ELSE <<>>

\* Mutant: every optional field is assigned, whatever its argument.
WindowMessageAllFields(number, action, originType, originUUID, destinationType, destinationUUID, data, authentication) ==
    [number |-> number, action |-> action, originType |-> originType,
     originUUID |-> originUUID, hops |-> <<>>,
     destinationType |-> destinationType, destinationUUID |-> destinationUUID,
     data |-> data, authentication |-> authentication]

\* The constructor: the four obligatory fields are always assigned, an optional
\* field only when its argument is not undefined, hops starts empty.
WindowMessage(number, action, originType, originUUID, destinationType, destinationUUID, data, authentication) ==
    [number |-> number, action |-> action, originType |-> originType,
     originUUID |-> originUUID, hops |-> <<>>]
    @@ Optional("destinationType", destinationType, Undefined)
    @@ Optional("destinationUUID", destinationUUID, Undefined)
    @@ Optional("data", data, NoData)
    @@ Optional("authentication", authentication, NoData)

\* Reading a property of an envelope: undefined when the envelope has none.
Field(m, name) == IF name \in DOMAIN m THEN m[name] ELSE Undefined
DataOf(m) == IF "data" \in DOMAIN m THEN m.data ELSE NoData

\* The copy of an envelope that postMessage hands to the target window: every
\* property the envelope has, the hops element by element.
Clone(m) ==
    [f \in DOMAIN m |->
        IF f = "hops" THEN [i \in 1..Len(m.hops) |-> m.hops[i]] ELSE m[f]]

Range(s) == {s[i] : i \in 1..Len(s)}
Push(m, uuid) == [m EXCEPT !.hops = Append(@, uuid)]

(***************************************************************************)
(* Identity of a window                                                    *)
(***************************************************************************)
UUID(r) == r
TypeOf(r) == r

(***************************************************************************)
(* The session table: an object used as a map, keys in insertion order     *)
(***************************************************************************)
Keys(table) == {table[i].key : i \in 1..Len(table)}
Get(table, key) ==
    IF key \in Keys(table)
    THEN (CHOOSE i \in 1..Len(table) : table[i].key = key)
    ELSE 0
Lookup(table, key) == IF Get(table, key) = 0 THEN Undefined ELSE table[Get(table, key)].ref
Delete(table, key) == SelectSeq(table, LAMBDA e : e.key # key)
Put(table, key, ref) ==
    IF key \in Keys(table)
    THEN [table EXCEPT ![Get(table, key)] = [key |-> key, ref |-> ref]]
    ELSE Append(table, [key |-> key, ref |-> ref])

(***************************************************************************)
(* WindowSession                                                           *)
(***************************************************************************)
NewSession ==
    [uuid |-> Undefined, type |-> Undefined, status |-> "CONNECTING",
     window |-> Null, gateway |-> Null, waiting |-> FALSE,
     queue |-> <<>>, received |-> <<>>]

\* The world a handler works on.
World ==
    [sessions |-> sessions, heap |-> heap, collectors |-> collectors, chan |-> chan,
     fired |-> <<>>, out |-> <<>>, finished |-> finished, heard |-> heard,
     opener |-> opener, disposed |-> disposed, issued |-> issued, wire |-> wire]

Fire(w, event) == [w EXCEPT !.fired = Append(@, event)]

\* window.postMessage(message, "*"): the event is queued at the target window.
Post(w, r, target, uuid, m) ==
    [w EXCEPT !.chan[<<r, target>>] = Append(@, Clone(m)),
              !.out = Append(@, [to |-> target, session |-> uuid, message |-> m]),
              !.wire = IF m.action = MESSAGE /\ "data" \in DOMAIN m
                       THEN Append(@, [at |-> r, payload |-> m.data.payload])
                       ELSE @]

\* send: a session with a window posts to it, a session with a gateway delegates
\* to the gateway's send, a session with neither drops the envelope.
RECURSIVE Deliverer(_, _, _)
Deliverer(w, r, ref) ==
    LET s == w.heap[r][ref]
    IN IF s.window # Null THEN s.window
       ELSE IF s.gateway # Null THEN Deliverer(w, r, s.gateway)
       ELSE Null
SessionSend(w, r, ref, m) ==
    IF Deliverer(w, r, ref) # Null
    THEN Post(w, r, Deliverer(w, r, ref), w.heap[r][ref].uuid, m)
    ELSE w

\* setStatus: the status changes; a status of CLOSED invokes the session's onClose.
SetStatus(w, r, ref, status) ==
    LET w1 == [w EXCEPT !.heap[r][ref].status = status]
    IN IF status = "CLOSED" /\ callbacks.session
       THEN Fire(w1, [callback |-> "session.onClose", at |-> r, session |-> ref])
       ELSE w1

\* An application send on a session: transmitted when the session is READY,
\* buffered until then.
SendMessage(w, r, ref, data) ==
    LET s == w.heap[r][ref]
        m == WindowMessage(0, MESSAGE, TypeOf(r), UUID(r), s.type, s.uuid, data, NoData)
        w1 == [w EXCEPT !.issued = Append(@, [at |-> r, ref |-> ref])]
    IN IF s.status = "READY"
       THEN SessionSend(w1, r, ref, m)
       ELSE [w1 EXCEPT !.heap[r][ref].queue = Append(@, m)]

\* waitReady: the session waits for the READY of its peer.
WaitReady(w, r, ref) ==
    [w EXCEPT !.heap[r][ref].status = "WAITING_READY", !.heap[r][ref].waiting = TRUE]

\* acknowledge: a READY envelope to the remote peer.
Acknowledge(w, r, ref) ==
    SessionSend(w, r, ref,
        WindowMessage(0, READY, TypeOf(r), UUID(r), w.heap[r][ref].type,
                      w.heap[r][ref].uuid, NoData, NoData))

\* connect: a CONNECT envelope to the remote peer.
Connect(w, r, ref) ==
    SessionSend(w, r, ref,
        WindowMessage(0, CONNECT, TypeOf(r), UUID(r), w.heap[r][ref].type,
                      w.heap[r][ref].uuid, NoData, NoData))

\* close: a CLOSED envelope to the remote peer, then the session is CLOSED and
\* leaves the table of its manager.
Close(w, r, ref) ==
    LET s  == w.heap[r][ref]
        w1 == SessionSend(w, r, ref,
                  WindowMessage(0, CLOSED, TypeOf(r), UUID(r), s.type, s.uuid,
                                NoData, NoData))
        w2 == SetStatus(w1, r, ref, "CLOSED")
    IN [w2 EXCEPT !.sessions[r] =
            SelectSeq(@, LAMBDA e : e.ref # ref)]

(***************************************************************************)
(* WindowManager: the "message" listener                                   *)
(***************************************************************************)
\* Messages that need to be redirected: the destination's session sends the
\* envelope on, with this manager's uuid pushed to its hops.
Redirect(w, r, m) ==
    LET ref == Lookup(w.sessions[r], m.destinationUUID)
    IN IF ref # Undefined
       THEN SessionSend(w, r, ref, Push(m, UUID(r)))
       ELSE w

\* Mutant: the session of the origin is closed without the test that it exists.
OnClosedUnguarded(w, r, m) ==
    LET ref == Lookup(w.sessions[r], m.originUUID)
    IN IF ref # Undefined
       THEN [SetStatus(w, r, ref, "CLOSED") EXCEPT
                !.sessions[r] = Delete(@, m.originUUID)]
       ELSE Fire(w, [callback |-> "TypeError", at |-> r, session |-> Null])

\* Mutant: the session of the origin is closed and stays in the table.
OnClosedKeepsEntry(w, r, m) ==
    LET ref == Lookup(w.sessions[r], m.originUUID)
    IN IF ref # Undefined
       THEN SetStatus(w, r, ref, "CLOSED")
       ELSE w

\* Session closed.
OnClosed(w, r, m) ==
    LET ref == Lookup(w.sessions[r], m.originUUID)
    IN IF ref # Undefined
       THEN [SetStatus(w, r, ref, "CLOSED") EXCEPT
                !.sessions[r] = Delete(@, m.originUUID)]
       ELSE w

\* Mutant: the last session of the table of the requested type.
LastOfType(w, r, type) ==
    LET table == w.sessions[r]
        hits  == {i \in 1..Len(table) : w.heap[r][table[i].ref].type = type}
    IN IF hits = {} THEN 0
       ELSE table[CHOOSE i \in hits : \A j \in hits : i >= j].ref

\* Lookup: the first session of the table, in table order, of the requested type.
FirstOfType(w, r, type) ==
    LET table == w.sessions[r]
        hits  == {i \in 1..Len(table) : w.heap[r][table[i].ref].type = type}
    IN IF hits = {} THEN 0
       ELSE table[CHOOSE i \in hits : \A j \in hits : i <= j].ref

LookupResponse(w, r, m) ==
    LET hit == FirstOfType(w, r, Field(m, "destinationType"))
    IN IF hit # 0
       THEN WindowMessage(0, LOOKUP_FOUND, TypeOf(r), UUID(r), Undefined, Undefined,
                          [uuid |-> w.heap[r][hit].uuid, type |-> w.heap[r][hit].type],
                          NoData)
       ELSE WindowMessage(0, LOOKUP_NOT_FOUND, TypeOf(r), UUID(r), Undefined, Undefined,
                          NoData, NoData)

OnLookup(w, r, m) ==
    LET ref == Lookup(w.sessions[r], m.originUUID)
    IN IF ref # Undefined
       THEN SessionSend(w, r, ref, LookupResponse(w, r, m))
       ELSE w

\* Mutant: the first hop is taken for the gateway.
OnConnectFirstHop(w, r, m) ==
    LET gatewayUUID == IF m.hops = <<>> THEN Undefined ELSE m.hops[1]
        gateway     == Lookup(w.sessions[r], gatewayUUID)
        ref         == Len(w.heap[r]) + 1
        session     == [NewSession EXCEPT !.uuid = m.originUUID,
                                          !.type = m.originType,
                                          !.gateway = gateway]
    IN IF gateway # Undefined
       THEN Acknowledge(WaitReady([w EXCEPT !.heap[r] = Append(@, session)], r, ref),
                        r, ref)
       ELSE w

\* Connect message: the last hop is the gateway the envelope came through.
OnConnect(w, r, m) ==
    LET gatewayUUID == IF m.hops = <<>> THEN Undefined ELSE m.hops[Len(m.hops)]
        gateway     == Lookup(w.sessions[r], gatewayUUID)
        ref         == Len(w.heap[r]) + 1
        session     == [NewSession EXCEPT !.uuid = m.originUUID,
                                          !.type = m.originType,
                                          !.gateway = gateway]
    IN IF gateway # Undefined
       THEN Acknowledge(WaitReady([w EXCEPT !.heap[r] = Append(@, session)], r, ref),
                        r, ref)
       ELSE w

\* Mutant: the forwarding test without the hop list.
ForwardToAnyButOrigin(m, session) ==
    session.uuid # m.originUUID

\* Mutant: the forwarding test without the origin.
ForwardToAnyNotInHops(m, session) ==
    session.uuid \notin Range(m.hops)

\* Broadcast: forward only to sessions that are not the origin and not in the hops.
ForwardTo(m, session) ==
    session.uuid # m.originUUID /\ session.uuid \notin Range(m.hops)

RECURSIVE ForwardFrom(_, _, _, _)
ForwardFrom(w, r, m, i) ==
    IF i > Len(w.sessions[r]) THEN w
    ELSE LET ref == w.sessions[r][i].ref
             w1  == SessionSend(w, r, ref, m)
             w2  == IF callbacks.session
                    THEN Fire(w1, [callback |-> "session.onBroadcastMessage",
                                   at |-> r, session |-> ref])
                    ELSE w1
         IN IF ForwardTo(m, w.heap[r][ref])
            THEN ForwardFrom(w2, r, m, i + 1)
            ELSE ForwardFrom(w, r, m, i + 1)

\* Mutant: the envelope is forwarded without this manager's uuid in its hops.
OnBroadcastNoHop(w, r, m) ==
    LET w1 == IF callbacks.router
              THEN Fire(w, [callback |-> "onBroadcastMessage", at |-> r, session |-> Null])
              ELSE w
    IN ForwardFrom(w1, r, m, 1)

OnBroadcast(w, r, m) ==
    LET w1 == IF callbacks.router
              THEN Fire(w, [callback |-> "onBroadcastMessage", at |-> r, session |-> Null])
              ELSE w
    IN ForwardFrom(w1, r, Push(m, UUID(r)), 1)

\* The invocation of a session's onMessage, with the length of its received queue
\* at that moment.
SessionOnMessage(w, r, ref) ==
    [callback |-> "session.onMessage", at |-> r, session |-> ref,
     received |-> Len(w.heap[r][ref].received)]

\* Mutant: the session of the origin first, the global callback last.
OnMessageSessionFirst(w, r, m) ==
    LET ref == Lookup(w.sessions[r], m.originUUID)
        w1  == [w EXCEPT !.heap[r][ref].received = Append(@, m)]
        w2  == IF ref = Undefined THEN w
               ELSE IF callbacks.session THEN Fire(w1, SessionOnMessage(w1, r, ref))
               ELSE w1
    IN IF callbacks.router
       THEN Fire(w2, [callback |-> "onMessage", at |-> r, session |-> Null])
       ELSE w2

\* Mutant: the message is queued without the test that the origin has a session.
OnMessageUnguarded(w, r, m) ==
    LET w1  == IF callbacks.router
               THEN Fire(w, [callback |-> "onMessage", at |-> r, session |-> Null])
               ELSE w
        ref == Lookup(w.sessions[r], m.originUUID)
        w2  == [w1 EXCEPT !.heap[r][ref].received = Append(@, m)]
    IN IF ref # Undefined
       THEN IF callbacks.session
            THEN Fire(w2, SessionOnMessage(w2, r, ref))
            ELSE w2
       ELSE Fire(w1, [callback |-> "TypeError", at |-> r, session |-> Null])

\* Messages: the global callback, then the session of the origin.
OnMessage(w, r, m) ==
    LET w1  == IF callbacks.router
               THEN Fire(w, [callback |-> "onMessage", at |-> r, session |-> Null])
               ELSE w
        ref == Lookup(w.sessions[r], m.originUUID)
        w2  == [w1 EXCEPT !.heap[r][ref].received = Append(@, m)]
    IN IF ref # Undefined
       THEN IF callbacks.session
            THEN Fire(w2, SessionOnMessage(w2, r, ref))
            ELSE w2
       ELSE w1

Redirected(r, m) ==
    Field(m, "destinationUUID") # Undefined /\ m.destinationUUID # UUID(r)

ManagerListener(w, r, m) ==
    IF m.action = READY THEN w
    ELSE IF Redirected(r, m) THEN Redirect(w, r, m)
    ELSE IF m.action = CLOSED THEN OnClosed(w, r, m)
    ELSE IF m.action = LOOKUP THEN OnLookup(w, r, m)
    ELSE IF m.action = CONNECT THEN OnConnect(w, r, m)
    ELSE IF m.action = BROADCAST THEN OnBroadcast(w, r, m)
    ELSE IF m.action = MESSAGE THEN OnMessage(w, r, m)
    ELSE w

(***************************************************************************)
(* WindowManager.broadcast                                                 *)
(***************************************************************************)
\* this.manager is the EventManager, which has neither type nor uuid.
ManagerType(r) == Undefined
ManagerUUID(r) == Undefined

RECURSIVE SendToAll(_, _, _, _)
SendToAll(w, r, m, i) ==
    IF i > Len(w.sessions[r]) THEN w
    ELSE SendToAll(SessionSend(w, r, w.sessions[r][i].ref, m), r, m, i + 1)

\* Mutant: the hops of a new broadcast are left empty.
BroadcastCallNoHop(w, r, data, authentication) ==
    SendToAll(w, r,
        WindowMessage(0, BROADCAST, ManagerType(r), ManagerUUID(r), Undefined,
                      Undefined, data, authentication), 1)

BroadcastCall(w, r, data, authentication) ==
    SendToAll(w, r,
        Push(WindowMessage(0, BROADCAST, ManagerType(r), ManagerUUID(r), Undefined,
                           Undefined, data, authentication), UUID(r)), 1)

(***************************************************************************)
(* WindowManager.checkOpener                                               *)
(***************************************************************************)
wasOpened(w, r) == w.opener[r] # Null

\* A window that was opened creates the session for its opener, acknowledges and
\* waits for the READY of the opener.
CheckOpener(w, r) ==
    LET ref == Len(w.heap[r]) + 1
        w1  == [w EXCEPT !.heap[r] = Append(@, [NewSession EXCEPT !.window = w.opener[r]])]
    IN IF wasOpened(w, r)
       THEN WaitReady(Acknowledge(w1, r, ref), r, ref)
       ELSE w

(***************************************************************************)
(* WindowManager.openSession: the callback it hands to lookup              *)
(***************************************************************************)
NoWindow == Null - 1

\* window.open(url): a new window whose opener is this one, null when the host
\* opens no more windows.
FreshWindow(w) ==
    IF \E c \in Node : w.opener[c] = NoWindow
    THEN CHOOSE c \in Node : w.opener[c] = NoWindow /\
                             \A d \in Node : w.opener[d] = NoWindow => c <= d
    ELSE Null

OpenSessionFound(w, r, ref, gateway, uuid, type) ==
    Connect(WaitReady([w EXCEPT !.heap[r][ref].gateway = gateway,
                                !.heap[r][ref].uuid = uuid,
                                !.heap[r][ref].type = type], r, ref), r, ref)

OpenSessionNotFound(w, r, ref, url) ==
    IF url # Null
    THEN LET c  == FreshWindow(w)
             w1 == IF c = Null THEN w
                   ELSE [w EXCEPT !.opener[c] = r, !.heap[r][ref].window = c]
         IN WaitReady(w1, r, ref)
    ELSE w

\* onFinish(gateway, uuid, type): the invocation is recorded; the callback of
\* openSession (owner is its session) goes on with the handshake.
OnFinish(w, r, c, gateway, uuid, type) ==
    LET w1 == [w EXCEPT !.finished[r][c.id] =
                   Append(@, [gateway |-> gateway, uuid |-> uuid, type |-> type])]
    IN IF c.owner = Null THEN w1
       ELSE IF gateway = Null THEN OpenSessionNotFound(w1, r, c.owner, c.url)
       ELSE OpenSessionFound(w1, r, c.owner, gateway, uuid, type)

(***************************************************************************)
(* WindowManager.lookup                                                    *)
(***************************************************************************)
Collector(id, sent, owner, url) ==
    [id |-> id, sent |-> sent, received |-> 0, found |-> FALSE, owner |-> owner,
     url |-> url]

Position(w, r, id) ==
    IF \E i \in 1..Len(w.collectors[r]) : w.collectors[r][i].id = id
    THEN CHOOSE i \in 1..Len(w.collectors[r]) : w.collectors[r][i].id = id
    ELSE 0

\* Mutant: a LOOKUP_FOUND is accepted whenever its origin has a session.
AcceptsAgain(w, r, c, m) ==
    Lookup(w.sessions[r], m.originUUID) # Undefined

\* Mutant: onFinish(null) after the last response, found or not.
GivesUpAlways(c) == TRUE

\* A LOOKUP_FOUND is accepted when nothing was found yet and its origin has a session.
Accepts(w, r, c, m) ==
    c.found = FALSE /\ Lookup(w.sessions[r], m.originUUID) # Undefined

\* All responses are in: onFinish(null) unless something was found.
GivesUp(c) == c.found = FALSE

\* The collector's "message" listener.
CollectorListener(w, r, id, m) ==
    LET i  == Position(w, r, id)
        c  == w.collectors[r][i]
        counts == m.action \in {LOOKUP_FOUND, LOOKUP_NOT_FOUND}
        accept == m.action = LOOKUP_FOUND /\ Accepts(w, r, c, m)
        w0 == IF counts
              THEN [w EXCEPT !.heard[r][id] =
                      Append(@, [action |-> m.action, origin |-> m.originUUID,
                                 data |-> DataOf(m),
                                 session |-> Lookup(w.sessions[r], m.originUUID)])]
              ELSE w
        w1 == IF accept
              THEN OnFinish([w0 EXCEPT !.collectors[r][i].found = TRUE], r, c,
                            Lookup(w.sessions[r], m.originUUID), m.data.uuid, m.data.type)
              ELSE w0
        w2 == IF counts THEN [w1 EXCEPT !.collectors[r][i].received = @ + 1] ELSE w1
        c2 == w2.collectors[r][i]
    IN IF i = 0 THEN w
       ELSE IF c2.sent = c2.received
       THEN LET w3 == [w2 EXCEPT !.collectors[r] = SelectSeq(@, LAMBDA x : x.id # id)]
            IN IF GivesUp(c2) THEN OnFinish(w3, r, c2, Null, Undefined, Undefined) ELSE w3
       ELSE w2

\* Mutant: the collector is installed whatever the number of envelopes sent.
LookupCallAlwaysCollects(w, r, id, type, owner, url) ==
    LET message == WindowMessage(0, LOOKUP, TypeOf(r), UUID(r), type, Undefined,
                                 NoData, NoData)
        sent    == Len(w.sessions[r])
        w1      == SendToAll(w, r, message, 1)
        c       == Collector(id, sent, owner, url)
    IN [w1 EXCEPT !.collectors[r] = Append(@, c)]

\* lookup(type, onFinish): a LOOKUP envelope through every session of the table;
\* with none, onFinish(null) at once.
LookupCall(w, r, id, type, owner, url) ==
    LET message == WindowMessage(0, LOOKUP, TypeOf(r), UUID(r), type, Undefined,
                                 NoData, NoData)
        sent    == Len(w.sessions[r])
        w1      == SendToAll(w, r, message, 1)
        c       == Collector(id, sent, owner, url)
    IN IF sent > 0
       THEN [w1 EXCEPT !.collectors[r] = Append(@, c)]
       ELSE OnFinish(w1, r, c, Null, Undefined, Undefined)

(***************************************************************************)
(* WindowManager.openSession                                               *)
(***************************************************************************)
\* The session openSession returns when one of the type is in the table, else 0.
ExistingSession(w, r, type) == FirstOfType(w, r, type)

OpenSessionCall(w, r, id, url, type) ==
    LET ref == Len(w.heap[r]) + 1
        w1  == [w EXCEPT !.heap[r] = Append(@, [NewSession EXCEPT !.type = type])]
    IN IF ExistingSession(w, r, type) # 0 THEN w
       ELSE IF type # Undefined THEN LookupCall(w1, r, id, type, ref, url)
       ELSE w1

OpenSessionResult(w, r, type) ==
    IF ExistingSession(w, r, type) # 0
    THEN ExistingSession(w, r, type)
    ELSE Len(w.heap[r]) + 1

(***************************************************************************)
(* WindowSession.waitReady: the listener for the READY of the peer         *)
(***************************************************************************)
\* The READY of the peer: from the session's window, or, for a session with a
\* gateway, from the session's uuid.
FromPeer(s, from, m) ==
    IF s.window # Null THEN from = s.window ELSE m.originUUID = s.uuid

\* Mutant: the buffered sends are transmitted newest first.
RECURSIVE FlushNewestFirst(_, _, _, _)
FlushNewestFirst(w, r, ref, queue) ==
    IF queue = <<>> THEN w
    ELSE SessionSend(FlushNewestFirst(w, r, ref, Tail(queue)), r, ref, Head(queue))

RECURSIVE Flush(_, _, _, _)
Flush(w, r, ref, queue) ==
    IF queue = <<>> THEN w
    ELSE Flush(SessionSend(w, r, ref, Head(queue)), r, ref, Tail(queue))

ReadyListener(w, r, ref, from, m) ==
    LET s == w.heap[r][ref]
    IN IF s.waiting /\ m.action = READY /\ FromPeer(s, from, m)
       THEN Flush([w EXCEPT !.heap[r][ref].uuid = m.originUUID,
                            !.heap[r][ref].type = m.originType,
                            !.heap[r][ref].status = "READY",
                            !.heap[r][ref].waiting = FALSE,
                            !.heap[r][ref].queue = <<>>,
                            !.sessions[r] = Put(@, m.originUUID, ref)],
                  r, ref, s.queue)
       ELSE w

(***************************************************************************)
(* One "message" event at a window: every listener, in the order added     *)
(***************************************************************************)
RECURSIVE ReadyListeners(_, _, _, _, _)
ReadyListeners(w, r, refs, from, m) ==
    IF refs = <<>> THEN w
    ELSE ReadyListeners(ReadyListener(w, r, Head(refs), from, m), r, Tail(refs), from, m)

RECURSIVE CollectorListeners(_, _, _, _)
CollectorListeners(w, r, ids, m) ==
    IF ids = <<>> THEN w
    ELSE CollectorListeners(CollectorListener(w, r, Head(ids), m), r, Tail(ids), m)

Waiting(w, r) ==
    SelectSeq([i \in 1..Len(w.heap[r]) |-> i], LAMBDA i : w.heap[r][i].waiting)

\* Mutant: the manager's listener stays attached after dispose().
DispatchUndisposed(w, r, from, m) ==
    CollectorListeners(
        ReadyListeners(ManagerListener(w, r, m), r, Waiting(w, r), from, m),
        r, [i \in 1..Len(w.collectors[r]) |-> w.collectors[r][i].id], m)

\* The manager's listener, unless dispose() detached it; then the listeners of
\* the sessions waiting for READY; then the lookup collectors.
Dispatch(w, r, from, m) ==
    CollectorListeners(
        ReadyListeners(IF w.disposed[r] THEN w ELSE ManagerListener(w, r, m),
                       r, Waiting(w, r), from, m),
        r, [i \in 1..Len(w.collectors[r]) |-> w.collectors[r][i].id], m)

(***************************************************************************)
(* WindowManager.dispose                                                   *)
(***************************************************************************)
RECURSIVE CloseAll(_, _, _)
CloseAll(w, r, table) ==
    IF table = <<>> THEN w
    ELSE CloseAll(Close(w, r, Head(table).ref), r, Tail(table))

\* dispose(): close() on every session of the table, then the manager's
\* listeners are detached.
DisposeCall(w, r) ==
    [CloseAll(w, r, w.sessions[r]) EXCEPT !.disposed[r] = TRUE]

(***************************************************************************)
(* Steps                                                                   *)
(***************************************************************************)
Apply(w) ==
    /\ sessions' = w.sessions
    /\ heap' = w.heap
    /\ collectors' = w.collectors
    /\ chan' = w.chan
    /\ fired' = w.fired
    /\ out' = w.out
    /\ finished' = w.finished
    /\ heard' = w.heard
    /\ opener' = w.opener
    /\ disposed' = w.disposed
    /\ issued' = w.issued
    /\ wire' = w.wire

IsBroadcast(m) == m.action = BROADCAST /\ "data" \in DOMAIN m
Posted(w, action) == {i \in 1..Len(w.out) : w.out[i].message.action = action}
Called(w, name) == {i \in 1..Len(w.fired) : w.fired[i].callback = name}

\* The tally of a broadcast at a window after a dispatch of one of its envelopes.
Tallied(w, r, m) ==
    [tally EXCEPT ![r][m.data.payload] =
        [delivered |-> @.delivered + 1,
         relayed   |-> @.relayed + (IF Posted(w, BROADCAST) # {} THEN 1 ELSE 0),
         posted    |-> @.posted + Cardinality(Posted(w, BROADCAST)),
         called    |-> @.called + Cardinality(Called(w, "onBroadcastMessage"))]]

\* The host dispatches the oldest event a posted to b.
Deliver(a, b) ==
    /\ chan[<<a, b>>] # <<>>
    /\ LET m == Head(chan[<<a, b>>])
           w == Dispatch([World EXCEPT !.chan[<<a, b>>] = Tail(@)], b, a, m)
       IN /\ Apply(w)
          /\ tally' = IF IsBroadcast(m) THEN Tallied(w, b, m) ELSE tally
          /\ opened' = IF m.action = CLOSED /\ ~Redirected(b, m)
                       THEN [opened EXCEPT ![b] = <<>>] ELSE opened
          /\ step' = [op |-> "dispatch", at |-> b, from |-> a, message |-> m]
    /\ UNCHANGED <<callbacks, lookups, casts, closes>>

\* The application at r calls broadcast(data, authentication).
Broadcast(r) ==
    /\ Len(casts) < MaxBroadcasts
    /\ Apply(BroadcastCall(World, r, [payload |-> Len(casts) + 1], NoData))
    /\ casts' = Append(casts, r)
    /\ step' = [op |-> "broadcast", at |-> r, from |-> r,
                message |-> [action |-> BROADCAST]]
    /\ UNCHANGED <<callbacks, lookups, opened, tally, closes>>

\* The application at r calls lookup(type, onFinish).
Calls == [r \in Node |-> lookups[r]]
RECURSIVE Sum(_, _)
Sum(f, n) == IF n = 0 THEN 0 ELSE f[n] + Sum(f, n - 1)

LookupStep(r, type) ==
    /\ Sum(Calls, NumNodes) < MaxLookups
    /\ Apply(LookupCall(World, r, lookups[r] + 1, type, Null, Null))
    /\ lookups' = [lookups EXCEPT ![r] = @ + 1]
    /\ step' = [op |-> "lookup", at |-> r, from |-> r, message |-> [action |-> LOOKUP]]
    /\ UNCHANGED <<callbacks, opened, tally, casts, closes>>

\* The application at r calls openSession(url, type), the limit-th call at most.
OpenSessionWithin(limit, r, url, type) ==
    /\ Sum(Calls, NumNodes) < limit
    /\ Len(opened[r]) < limit
    /\ Apply(OpenSessionCall(World, r, lookups[r] + 1, url, type))
    /\ lookups' = IF ExistingSession(World, r, type) # 0 THEN lookups
                  ELSE [lookups EXCEPT ![r] = @ + 1]
    /\ opened' = [opened EXCEPT ![r] =
                     Append(@, [type |-> type, ref |-> OpenSessionResult(World, r, type)])]
    /\ step' = [op |-> "openSession", at |-> r, from |-> r,
                message |-> [action |-> LOOKUP]]
    /\ UNCHANGED <<callbacks, tally, casts, closes>>

OpenSession(r, url, type) == OpenSessionWithin(MaxOpens, r, url, type)

\* The application at r calls close() on a session of its table, the limit-th
\* call at most.
CloseSessionWithin(limit, r, i) ==
    /\ closes < limit
    /\ i \in 1..Len(sessions[r])
    /\ Apply(Close(World, r, sessions[r][i].ref))
    /\ closes' = closes + 1
    /\ opened' = [opened EXCEPT ![r] = <<>>]
    /\ step' = [op |-> "close", at |-> r, from |-> r, message |-> [action |-> CLOSED]]
    /\ UNCHANGED <<callbacks, lookups, tally, casts>>

CloseSession(r, i) == CloseSessionWithin(MaxCloses, r, i)

\* The document of a window that window.open created is loaded: its manager is
\* constructed and initialized.
Load(r) ==
    /\ opener[r] \in Node
    /\ heap[r] = <<>>
    /\ Apply(CheckOpener(World, r))
    /\ step' = [op |-> "load", at |-> r, from |-> r, message |-> [action |-> READY]]
    /\ UNCHANGED <<callbacks, lookups, opened, tally, casts, closes>>

\* The application at r sends a message on one of its sessions.
Send(r, ref) ==
    /\ Len(issued) < MaxSends
    /\ ref \in 1..Len(heap[r])
    /\ heap[r][ref].status # "CLOSED"
    /\ Apply(SendMessage(World, r, ref, [payload |-> Len(issued) + 1]))
    /\ step' = [op |-> "send", at |-> r, from |-> r, message |-> [action |-> MESSAGE]]
    /\ UNCHANGED <<callbacks, lookups, opened, tally, casts, closes>>

\* The application at r calls close() on a session openSession returned.
CloseReturned(r, k) ==
    /\ closes < MaxCloses
    /\ k \in 1..Len(opened[r])
    /\ Apply(Close(World, r, opened[r][k].ref))
    /\ closes' = closes + 1
    /\ opened' = [opened EXCEPT ![r] = <<>>]
    /\ step' = [op |-> "close", at |-> r, from |-> r, message |-> [action |-> CLOSED]]
    /\ UNCHANGED <<callbacks, lookups, tally, casts>>

\* A session of r sends an envelope that the constructor builds from args.
Construct(r, ref, args) ==
    /\ Apply(SessionSend(World, r, ref,
                WindowMessage(args.number, args.action, args.originType,
                              args.originUUID, args.destinationType,
                              args.destinationUUID, args.data, args.authentication)))
    /\ step' = [op |-> "construct", at |-> r, from |-> r,
                message |-> [action |-> args.action], args |-> args]
    /\ UNCHANGED <<callbacks, lookups, opened, tally, casts, closes>>

\* The application at r calls dispose().
Dispose(r) ==
    /\ ~disposed[r]
    /\ Apply(DisposeCall(World, r))
    /\ opened' = [opened EXCEPT ![r] = <<>>]
    /\ step' = [op |-> "dispose", at |-> r, from |-> r, message |-> [action |-> CLOSED]]
    /\ UNCHANGED <<callbacks, lookups, tally, casts, closes>>

\* The host dispatches at r an event that some window posted: any envelope.
Receive(r, from, m) ==
    /\ Apply(Dispatch(World, r, from, m))
    /\ step' = [op |-> "dispatch", at |-> r, from |-> from, message |-> m]
    /\ UNCHANGED <<callbacks, lookups, opened, tally, casts, closes>>

(***************************************************************************)
(* Topologies                                                              *)
(***************************************************************************)
Sorted(S) ==
    [i \in 1..Cardinality(S) |->
        CHOOSE x \in S : Cardinality({y \in S : y < x}) = i - 1]

\* A session of a window for a neighbour it reaches directly, handshake done.
Direct(n) ==
    [NewSession EXCEPT !.uuid = UUID(n), !.type = TypeOf(n), !.status = "READY",
                       !.window = n]

\* Every window holds a direct, READY session for each of its neighbours; types
\* gives the type each window declared.
EstablishedAs(neighbours, openers, slots, types) ==
    /\ heap = [r \in Node |-> [i \in 1..Cardinality(neighbours[r]) |->
                  [Direct(Sorted(neighbours[r])[i]) EXCEPT
                      !.type = types[Sorted(neighbours[r])[i]]]]]
    /\ sessions = [r \in Node |-> [i \in 1..Cardinality(neighbours[r]) |->
                                  [key |-> UUID(Sorted(neighbours[r])[i]), ref |-> i]]]
    /\ collectors = [r \in Node |-> <<>>]
    /\ chan = [p \in Node \X Node |-> <<>>]
    /\ callbacks \in slots
    /\ fired = <<>>
    /\ out = <<>>
    /\ finished = [r \in Node |-> [id \in LookupIds |-> <<>>]]
    /\ heard = [r \in Node |-> [id \in LookupIds |-> <<>>]]
    /\ closes = 0
    /\ lookups = [r \in Node |-> 0]
    /\ opened = [r \in Node |-> <<>>]
    /\ tally = [r \in Node |-> [p \in Payload |->
                   [delivered |-> 0, relayed |-> 0, posted |-> 0, called |-> 0]]]
    /\ casts = <<>>
    /\ opener = openers
    /\ disposed = [r \in Node |-> FALSE]
    /\ issued = <<>>
    /\ wire = <<>>
    /\ step = [op |-> "init", at |-> 0, from |-> 0, message |-> [action |-> READY]]

Established(neighbours, openers, slots) ==
    EstablishedAs(neighbours, openers, slots, [n \in Node |-> TypeOf(n)])

\* Cycle: A, B and C hold direct sessions for each other.
A == UUID(1)
B == UUID(2)
C == UUID(3)
InitCycle ==
    Established([r \in Node |-> IF r \in {A, B, C} THEN {A, B, C} \ {r} ELSE {}],
                [r \in Node |-> IF r = A THEN Null ELSE IF r \in {B, C} THEN A
                                ELSE NoWindow],
                [router : BOOLEAN, session : BOOLEAN])
NextCycle == Broadcast(A) \/ \E a, b \in Node : Deliver(a, b)
SpecCycle == InitCycle /\ [][NextCycle]_vars

\* Star: the hub holds a direct session for every leaf, a leaf one for the hub.
Hub == UUID(1)
Leaves == 2..(NumLeaves + 1)
InitStar ==
    Established([r \in Node |-> IF r = Hub THEN Leaves
                                ELSE IF r \in Leaves THEN {Hub} ELSE {}],
                [r \in Node |-> IF r = Hub THEN Null ELSE IF r \in Leaves THEN Hub
                                ELSE NoWindow],
                [router : BOOLEAN, session : BOOLEAN])
NextStar == (\E l \in Leaves : Broadcast(l)) \/ \E a, b \in Node : Deliver(a, b)
SpecStar == InitStar /\ [][NextStar]_vars

\* Tree: 1 opened 2 and 3, 2 opened 4; the other windows are not open yet.
Edges == {{1, 2}, {1, 3}, {2, 4}}
Callers == {1, 3}
\* The types asked for: the caller's own, a neighbour's, one a neighbour knows, none.
LookupTypes == {1, 4, 5}
OpenTypes == {1, 2, 4, 5}
\* A url to open a window from.
Locator == Null + 1
InitTree ==
    Established([r \in Node |-> {n \in Node : {r, n} \in Edges}],
                [r \in Node |-> IF r = 1 THEN Null ELSE IF r \in {2, 3} THEN 1
                                ELSE IF r = 4 THEN 2 ELSE NoWindow],
                {[router |-> TRUE, session |-> TRUE]})
\* lookup() calls of the callers, while any window may close a session.
NextLookup ==
    \/ \E r \in Callers, type \in LookupTypes : LookupStep(r, type)
    \/ \E r \in Node, i \in 1..NumNodes : CloseSession(r, i)
    \/ \E a, b \in Node : Deliver(a, b)
SpecLookup == InitTree /\ [][NextLookup]_vars

\* openSession() calls of the callers.
NextOpen ==
    \/ \E r \in Callers, url \in {Null, Locator}, type \in OpenTypes :
          OpenSession(r, url, type)
    \/ \E a, b \in Node : Deliver(a, b)
SpecOpen == InitTree /\ [][NextOpen]_vars

\* Line: 1 opened 2, 2 opened 3; the other windows are not open yet.
InitLine ==
    Established([r \in Node |-> {n \in Node : {r, n} \in {{1, 2}, {2, 3}}}],
                [r \in Node |-> IF r = 1 THEN Null ELSE IF r \in {2, 3} THEN r - 1
                                ELSE NoWindow],
                {[router |-> TRUE, session |-> TRUE]})

\* The life of the sessions of window 1 in the line: one openSession() for the
\* type of window 3, which window 2 knows, or for a type no window has; the
\* window it opens loads; the application sends on the sessions of window 1 and
\* closes one.
NextSession ==
    \/ /\ lookups[1] = 0
       /\ \E url \in {Null, Locator}, type \in {3, 5} : OpenSession(1, url, type)
    \/ \E r \in Node : Load(r)
    \/ \E ref \in 1..NumNodes : Send(1, ref)
    \/ \E k \in 1..MaxOpens : CloseReturned(1, k)
    \/ \E i \in 1..NumNodes : CloseSession(1, i)
    \/ \E a, b \in Node : Deliver(a, b)
SpecSession == InitLine /\ [][NextSession]_vars

\* lookup() calls of window 1, one broadcast() of window 3 and dispose() calls of
\* windows 1 and 3 in the tree.
Disposers == {1, 3}
NextDispose ==
    \/ \E type \in LookupTypes : LookupStep(1, type)
    \/ casts = <<>> /\ Broadcast(3)
    \/ \E r \in Disposers : Dispose(r)
    \/ \E a, b \in Node : Deliver(a, b)
SpecDispose == InitTree /\ [][NextDispose]_vars

\* One openSession() of each caller in the tree, for the type of window 4, which
\* window 2 knows, or for a type no window has; the windows it opens load; no
\* window closes a session, and every posted event is dispatched in the end.
NextRoute ==
    \/ \E r \in Callers, url \in {Null, Locator}, type \in {4, 5} :
          lookups[r] = 0 /\ OpenSession(r, url, type)
    \/ \E r \in Node : Load(r)
    \/ \E a, b \in Node : Deliver(a, b)
\* The host goes on dispatching while an event is queued or a document is to load.
HostStep == (\E a, b \in Node : Deliver(a, b)) \/ (\E r \in Node : Load(r))
FairRoute == WF_vars(HostStep)
\* HostStep is enabled: an event is queued or an opened document is not loaded.
Pending ==
    \/ \E pair \in Node \X Node : chan[pair] # <<>>
    \/ \E r \in Node : opener[r] \in Node /\ heap[r] = <<>>
SpecRoute == InitTree /\ [][NextRoute]_vars /\ FairRoute

\* The lookups of SpecLookup, with every posted event dispatched in the end.
SpecLookupFair == InitTree /\ [][NextLookup]_vars /\ FairRoute

\* Diamond: 1, 2 and 3 hold direct sessions for each other, 4 one for 1 and 1 one
\* for 4.
InitDiamond ==
    Established([r \in Node |-> {n \in Node : {r, n} \in {{1, 2}, {1, 3}, {2, 3}, {1, 4}}}],
                [r \in Node |-> IF r = 1 THEN Null ELSE IF r \in {2, 3, 4} THEN 1
                                ELSE NoWindow],
                {[router |-> TRUE, session |-> TRUE]})

\* The event at the head of a channel has not made more than MaxPath hops.
Short(a, b) == chan[<<a, b>>] # <<>> /\ Len(Head(chan[<<a, b>>]).hops) <= MaxPath

\* close() on the session of the table of r for the window key.
CloseOf(r, key) == CloseSessionWithin(MaxRelayCloses, r, Get(sessions[r], key))
OpenRelay(r) == lookups[r] = 0 /\ OpenSessionWithin(MaxRelayOpens, r, Null, TypeOf(3))

\* Windows 4 and 1 each call openSession() once for the type of window 3; window
\* 1 calls close() on its sessions for windows 3 and 2.
NextGateway ==
    \/ \E r \in {1, 4} : OpenRelay(r)
    \/ \E key \in {2, 3} : CloseOf(1, key)
    \/ \E a, b \in Node : Short(a, b) /\ Deliver(a, b)
SpecGateway == InitDiamond /\ [][NextGateway]_vars

\* Windows 4, 1 and 2, in this order, each call openSession() once for the type
\* of window 3; windows 1 and 2 call close() on their sessions for window 3;
\* then window 1 calls broadcast() once.
Turn(r) == IF r = 4 THEN TRUE ELSE IF r = 1 THEN lookups[4] > 0 ELSE lookups[1] > 0
NextRelay ==
    \/ \E r \in {1, 2, 4} : Turn(r) /\ OpenRelay(r)
    \/ \E r \in {1, 2} : CloseOf(r, UUID(3))
    \/ casts = <<>> /\ lookups[2] > 0 /\ Broadcast(1)
    \/ \E a, b \in Node : Short(a, b) /\ Deliver(a, b)
SpecRelay == InitDiamond /\ [][NextRelay]_vars

Actions == READY..CONNECT

\* One envelope built from any arguments and sent by window 1, then delivered.
Arguments ==
    [number : {0, 1}, action : Actions, originType : {Undefined, 1},
     originUUID : {Undefined, 1}, destinationType : {Undefined, 2},
     destinationUUID : {Undefined, 2, 3}, data : {NoData, [payload |-> 1]},
     authentication : {NoData, [token |-> 1]}]
NextEnvelope ==
    \/ step.op = "init" /\ \E ref \in 1..2, args \in Arguments : Construct(1, ref, args)
    \/ \E a, b \in Node : Deliver(a, b)
SpecEnvelope == InitTree /\ [][NextEnvelope]_vars

\* One event at window 1, of any action, origin, destination, payload and hops:
\* 2 and 3 have sessions in its table, 4 has none; 3 declared type 3 or, like 2,
\* type 2.
Strangers == {Undefined, 2, 4}
HopLists == UNION {[1..n -> {2, 4}] : n \in 0..MaxHops}
Envelopes ==
    {[WindowMessage(0, a, TypeOf(o), o, dt, du, d, NoData) EXCEPT !.hops = h] :
        a \in Actions, o \in Strangers, dt \in {Undefined, 2, 4},
        du \in {Undefined, 1, 2, 3, 4}, d \in {NoData, [payload |-> 1]},
        h \in HopLists}
InitDispatch ==
    \E t \in {2, 3} :
        EstablishedAs([r \in Node |-> {n \in Node : {r, n} \in Edges}],
                      [r \in Node |-> IF r = 1 THEN Null ELSE IF r \in {2, 3} THEN 1
                                      ELSE IF r = 4 THEN 2 ELSE NoWindow],
                      [router : BOOLEAN, session : BOOLEAN],
                      [n \in Node |-> IF n = 3 THEN t ELSE TypeOf(n)])
NextDispatch ==
    step.op = "init" /\ \E from \in {2, 3}, m \in Envelopes : Receive(1, from, m)
SpecDispatch == InitDispatch /\ [][NextDispatch]_vars

(***************************************************************************)
(* Properties                                                              *)
(***************************************************************************)
Quiet(p) ==
    \A pair \in Node \X Node : \A i \in 1..Len(chan[pair]) :
        ~(IsBroadcast(chan[pair][i]) /\ chan[pair][i].data.payload = p)

Relays == {i \in 1..Len(out) : step.op = "dispatch" /\ out[i].message.action = BROADCAST}

\* C2: in the cycle A, B, C a broadcast of A ends: A is handed none of its
\* envelopes back, each of B and C is handed at most two and forwards on at most
\* one dispatch, one envelope, and no envelope is forwarded to a session whose
\* uuid is in its hops.
C2_CycleBroadcastEnds ==
    /\ \A p \in Payload :
        /\ tally[A][p].delivered = 0
        /\ \A r \in {B, C} : /\ tally[r][p].delivered <= 2
                             /\ tally[r][p].relayed <= 1
                             /\ tally[r][p].posted <= 1
    /\ \A i \in Relays : out[i].session \notin Range(out[i].message.hops)

C2_Witness ==
    /\ Len(casts) >= 1
    /\ Quiet(1)
    /\ \A r \in {B, C} : tally[r][1].delivered = 2 /\ tally[r][1].relayed = 1

\* C3: in the star a broadcast of leaf L is handed to every other leaf at most
\* once, exactly once when none of its envelopes is left in flight, and never to L.
C3_StarExactlyOnce ==
    \A p \in 1..Len(casts) : \A l \in Leaves :
        IF l = casts[p] THEN tally[l][p].delivered = 0
        ELSE /\ tally[l][p].delivered <= 1
             /\ Quiet(p) => tally[l][p].delivered = 1

C3_Witness ==
    /\ Len(casts) >= 1
    /\ Quiet(1)
    /\ \A l \in Leaves \ {casts[1]} : tally[l][1].delivered = 1

\* C4 as stated: the hops of every envelope the hub relays are [L].
C4_HubHopsAreOrigin ==
    \A i \in Relays :
        step.at = Hub => out[i].message.hops = <<casts[out[i].message.data.payload]>>

\* C4, amended: the hops of every envelope the hub relays are [L, hub].
C4_HubHopsAreOriginThenHub ==
    \A i \in Relays :
        step.at = Hub => out[i].message.hops = <<casts[out[i].message.data.payload], Hub>>

C4_Witness ==
    /\ step.op = "dispatch" /\ step.at = Hub
    /\ Cardinality(Relays) = NumLeaves - 1

Active(r) == {collectors[r][i].id : i \in 1..Len(collectors[r])}
CollectorOf(r, id) ==
    collectors[r][CHOOSE i \in 1..Len(collectors[r]) : collectors[r][i].id = id]
NotFound == [gateway |-> Null, uuid |-> Undefined, type |-> Undefined]
Founds(h) == {i \in 1..Len(h) : h[i].action = LOOKUP_FOUND}
Usable(h) == {i \in Founds(h) : h[i].session # Undefined}
First(S) == CHOOSE i \in S : \A j \in S : i <= j
Handed(e) == [gateway |-> e.session, uuid |-> e.data.uuid, type |-> e.data.type]

\* C5: onFinish of a lookup is never invoked twice; it has been invoked once when
\* the lookup has no collector left, and a collector is left only while fewer
\* responses than LOOKUP envelopes sent have been received.
C5_OnFinishExactlyOnce ==
    \A r \in Node : \A id \in LookupIds :
        /\ Len(finished[r][id]) <= 1
        /\ id <= lookups[r] /\ id \notin Active(r) => Len(finished[r][id]) = 1
        /\ id \in Active(r) => Len(heard[r][id]) < CollectorOf(r, id).sent
        /\ id > lookups[r] => finished[r][id] = <<>>

C5_Witness ==
    \E id \in LookupIds :
        /\ Len(heard[1][id]) = 2
        /\ heard[1][id][1].action = LOOKUP_NOT_FOUND
        /\ heard[1][id][2].action = LOOKUP_FOUND
        /\ Len(finished[1][id]) = 1

\* C6 as stated: once a LOOKUP_FOUND was received, onFinish has been invoked with
\* the session of the origin of the first one and the uuid and type it carries,
\* never with null.
C6_FirstFoundWins ==
    \A r \in Node : \A id \in LookupIds :
        Founds(heard[r][id]) # {} =>
            /\ heard[r][id][First(Founds(heard[r][id]))].session # Undefined
            /\ finished[r][id] = <<Handed(heard[r][id][First(Founds(heard[r][id]))])>>

\* C6, amended: once a LOOKUP_FOUND was received from an origin that has a session
\* in the table at that moment, onFinish has been invoked with that session and
\* the uuid and type of the first such response, never with null; a LOOKUP_FOUND
\* whose origin has no session any more counts as a LOOKUP_NOT_FOUND.
C6_FirstUsableFoundWins ==
    \A r \in Node : \A id \in LookupIds :
        IF Usable(heard[r][id]) # {}
        THEN finished[r][id] = <<Handed(heard[r][id][First(Usable(heard[r][id]))])>>
        ELSE finished[r][id] \in {<<>>, <<NotFound>>}

C6_Witness ==
    \E id \in LookupIds :
        /\ Len(heard[1][id]) = 2
        /\ heard[1][id][1].action = LOOKUP_NOT_FOUND
        /\ heard[1][id][2].action = LOOKUP_FOUND
        /\ finished[1][id] = <<Handed(heard[1][id][2])>>
        /\ finished[1][id][1].gateway # Null

\* C7: a lookup on an empty table has invoked onFinish(null) when it returns,
\* posted no envelope and installed no collector.
C7_EmptyTableLookup ==
    step.op = "lookup" /\ sessions[step.at] = <<>> =>
        /\ finished[step.at][lookups[step.at]] = <<NotFound>>
        /\ out = <<>>
        /\ lookups[step.at] \notin Active(step.at)

C7_Witness ==
    step.op = "lookup" /\ sessions[step.at] = <<>>

\* The event of the step is one the manager redirects through a session it has.
Redirects ==
    /\ step'.op = "dispatch"
    /\ Redirected(step'.at, step'.message)
    /\ step'.message.destinationUUID \in Keys(sessions[step'.at])

\* The event of the step is for the manager itself, from an origin it has no
\* session for.
FromUnknown(action) ==
    /\ step'.op = "dispatch"
    /\ step'.message.action = action
    /\ ~Redirected(step'.at, step'.message)
    /\ step'.message.originUUID \notin Keys(sessions[step'.at])

\* C1: an envelope of any action addressed to another window that has a session
\* is posted once, through that session, with the manager's uuid appended to its
\* hops and nothing else changed; no callback fires and no session is created,
\* removed or changed.
C1_RedirectsEveryAction ==
    [][Redirects =>
        /\ Len(out') = 1
        /\ out'[1].session = step'.message.destinationUUID
        /\ out'[1].message = Push(step'.message, UUID(step'.at))
        /\ fired' = <<>>
        /\ sessions' = sessions
        /\ heap' = heap]_vars

\* C1 without the READY envelopes, which the manager returns from first.
C1_RedirectsAllButReady ==
    [][Redirects /\ step'.message.action # READY =>
        /\ Len(out') = 1
        /\ out'[1].session = step'.message.destinationUUID
        /\ out'[1].message = Push(step'.message, UUID(step'.at))
        /\ fired' = <<>>
        /\ sessions' = sessions
        /\ heap' = heap]_vars

\* C8: the calls of openSession of one window for one type, with no close in
\* between, all return the same session.
C8_SameSessionTwice ==
    \A r \in Node : \A i, j \in 1..Len(opened[r]) :
        opened[r][i].type = opened[r][j].type => opened[r][i].ref = opened[r][j].ref

\* C9: a CLOSED envelope from an origin that has no session changes neither the
\* table nor any session, fires no callback and raises no error.
C9_ClosedFromUnknown ==
    [][FromUnknown(CLOSED) =>
        /\ sessions' = sessions
        /\ heap' = heap
        /\ fired' = <<>>]_vars

C9_Witness ==
    /\ step.op = "dispatch"
    /\ step.message.action = CLOSED
    /\ ~Redirected(step.at, step.message)
    /\ step.message.originUUID = 4
    /\ Keys(sessions[step.at]) = {2, 3}

GlobalOnMessage(r) ==
    IF callbacks.router
    THEN <<[callback |-> "onMessage", at |-> r, session |-> Null]>>
    ELSE <<>>

\* C10 as stated: a MESSAGE envelope from an origin that has no session invokes
\* neither the global nor a session's onMessage and changes no received queue.
C10_MessageFromUnknownSilent ==
    [][FromUnknown(MESSAGE) =>
        /\ fired' = <<>>
        /\ heap' = heap]_vars

\* C10, amended: a MESSAGE envelope from an origin that has no session invokes the
\* global onMessage, when one is set, and nothing else: no session's onMessage,
\* no change of a received queue, of a session or of the table, no envelope.
C10_MessageFromUnknownGlobalOnly ==
    [][FromUnknown(MESSAGE) =>
        /\ fired' = GlobalOnMessage(step'.at)
        /\ heap' = heap
        /\ sessions' = sessions
        /\ out' = <<>>]_vars

C10_Witness ==
    /\ step.op = "dispatch"
    /\ step.message.action = MESSAGE
    /\ ~Redirected(step.at, step.message)
    /\ step.message.originUUID = 4
    /\ Keys(sessions[step.at]) = {2, 3}
    /\ fired = <<[callback |-> "onMessage", at |-> step.at, session |-> Null]>>

\* The event of the step is for the manager itself, from an origin it has a
\* session for.
FromKnown(action) ==
    /\ step'.op = "dispatch"
    /\ step'.message.action = action
    /\ ~Redirected(step'.at, step'.message)
    /\ step'.message.originUUID \in Keys(sessions[step'.at])

\* The session of the origin of the event of the step.
OriginSession == Lookup(sessions[step'.at], step'.message.originUUID)

\* The message is appended to the received queue of the origin's session and
\* nothing else of a session changes.
Queued ==
    heap' = [heap EXCEPT ![step'.at][OriginSession].received =
                Append(@, step'.message)]

SessionCallback(r, ref, n) ==
    IF callbacks.session
    THEN <<[callback |-> "session.onMessage", at |-> r, session |-> ref,
            received |-> n]>>
    ELSE <<>>

\* C11 as stated: a MESSAGE envelope from an origin that has a session is appended
\* to the session's received queue, then the session's onMessage is invoked, and
\* the global onMessage is invoked after it.
C11_SessionThenGlobal ==
    [][FromKnown(MESSAGE) =>
        /\ Queued
        /\ fired' = SessionCallback(step'.at, OriginSession,
                                    Len(heap[step'.at][OriginSession].received) + 1)
                     \o GlobalOnMessage(step'.at)]_vars

\* C11, amended: the global onMessage, when set, is invoked first; then the
\* message is appended to the received queue of the origin's session, and then the
\* session's onMessage, when set, is invoked, with the message already in the
\* queue; the table is unchanged and nothing is posted.
C11_GlobalThenSession ==
    [][FromKnown(MESSAGE) =>
        /\ Queued
        /\ fired' = GlobalOnMessage(step'.at)
                     \o SessionCallback(step'.at, OriginSession,
                                        Len(heap[step'.at][OriginSession].received) + 1)
        /\ sessions' = sessions
        /\ out' = <<>>]_vars

C11_Witness ==
    /\ step.op = "dispatch"
    /\ step.message.action = MESSAGE
    /\ ~Redirected(step.at, step.message)
    /\ step.message.originUUID = 2
    /\ Len(fired) = 2
    /\ fired[1].callback = "onMessage"
    /\ fired[2].callback = "session.onMessage"
    /\ Len(heap[step.at][fired[2].session].received) = 1

\* The envelopes of a broadcast() call: one through every session of the table,
\* in table order, with no destination and the caller's uuid as only hop.
OnePerSession ==
    /\ Len(out) = Len(sessions[step.at])
    /\ \A i \in 1..Len(out) :
        /\ out[i].session = sessions[step.at][i].key
        /\ out[i].message.action = BROADCAST
        /\ "destinationUUID" \notin DOMAIN out[i].message
        /\ out[i].message.hops = <<UUID(step.at)>>

\* C12: broadcast() sends one BROADCAST envelope to each session of the table,
\* with the router's uuid as originUUID, its type as originType, no
\* destinationUUID, and the router's uuid as only hop.
C12_BroadcastIdentifiesRouter ==
    step.op = "broadcast" =>
        /\ OnePerSession
        /\ \A i \in 1..Len(out) :
            /\ out[i].message.originUUID = UUID(step.at)
            /\ out[i].message.originType = TypeOf(step.at)

\* C12 without the origin: what broadcast() does send; originUUID and originType
\* are undefined.
C12_BroadcastWithoutOrigin ==
    step.op = "broadcast" =>
        /\ OnePerSession
        /\ \A i \in 1..Len(out) :
            /\ out[i].message.originUUID = Undefined
            /\ out[i].message.originType = Undefined

\* The step is the dispatch of an event at a router that was disposed of.
AfterDispose == step'.op = "dispatch" /\ disposed[step'.at]

\* dispose() sent a CLOSED envelope through every session of the table, every
\* such session is CLOSED and the table is empty.
DisposeCloses ==
    step'.op = "dispose" /\ ~disposed[step'.at] =>
        /\ Len(out') = Len(sessions[step'.at])
        /\ \A i \in 1..Len(out') :
            /\ out'[i].session = sessions[step'.at][i].key
            /\ out'[i].to = sessions[step'.at][i].key
            /\ out'[i].message.action = CLOSED
            /\ heap'[step'.at][sessions[step'.at][i].ref].status = "CLOSED"
        /\ sessions'[step'.at] = <<>>
        /\ disposed'[step'.at]

Untouched ==
    /\ sessions' = sessions
    /\ heap' = heap
    /\ collectors' = collectors
    /\ finished' = finished
    /\ opener' = opener
    /\ fired' = <<>>
    /\ out' = <<>>

ForOtherListener ==
    \/ /\ step'.message.action \in {LOOKUP_FOUND, LOOKUP_NOT_FOUND}
       /\ collectors[step'.at] # <<>>
    \/ /\ step'.message.action = READY
       /\ Waiting(World, step'.at) # <<>>

Obligatory == {"number", "action", "originType", "originUUID", "hops"}
Supplied(args) ==
    {f \in {"destinationType", "destinationUUID"} : args[f] # Undefined}
    \cup {f \in {"data", "authentication"} : args[f] # NoData}

\* The envelope has the obligatory fields and the optional fields supplied, no
\* other, each with the value of its argument, and no hop.
Carries(m, args) ==
    /\ DOMAIN m = Obligatory \cup Supplied(args)
    /\ \A f \in DOMAIN m \ {"hops"} : m[f] = args[f]
    /\ m.hops = <<>>

Local(action) ==
    /\ step'.op = "dispatch"
    /\ step'.message.action = action
    /\ ~Redirected(step'.at, step'.message)

\* The hops of the event of the step with the manager's uuid appended.
Appended == Append(step'.message.hops, UUID(step'.at))

\* The entries of the table a broadcast is forwarded to, in table order.
Targets ==
    SelectSeq(sessions[step'.at],
              LAMBDA e : /\ e.key # step'.message.originUUID
                         /\ e.key \notin Range(Appended))

RouterOnBroadcast ==
    IF callbacks.router
    THEN <<[callback |-> "onBroadcastMessage", at |-> step'.at, session |-> Null]>>
    ELSE <<>>

SessionsOnBroadcast ==
    IF callbacks.session
    THEN [i \in 1..Len(Targets) |->
            [callback |-> "session.onBroadcastMessage", at |-> step'.at,
             session |-> Targets[i].ref]]
    ELSE <<>>

\* C15: a BROADCAST envelope the manager handles invokes its onBroadcastMessage
\* once, is forwarded, with the manager's uuid appended to its hops, through the
\* sessions of the table whose uuid is neither the originUUID nor in the hops
\* after the append, each once and no other; the onBroadcastMessage of a session
\* is invoked exactly when the envelope is forwarded through it.
C15_BroadcastForwarding ==
    [][Local(BROADCAST) =>
        /\ Len(out') = Len(Targets)
        /\ \A i \in 1..Len(Targets) :
            /\ out'[i].session = Targets[i].key
            /\ out'[i].message = [step'.message EXCEPT !.hops = Appended]
        /\ fired' = RouterOnBroadcast \o SessionsOnBroadcast
        /\ sessions' = sessions
        /\ heap' = heap]_vars

C15_Witness ==
    /\ step.op = "dispatch"
    /\ step.message.action = BROADCAST
    /\ ~Redirected(step.at, step.message)
    /\ step.message.originUUID = 2
    /\ step.message.hops = <<4>>
    /\ Len(out) = 1
    /\ out[1].session = 3
    /\ Len(fired) = 2

\* The last hop of the event of the step, undefined when it has none.
LastHop ==
    IF step'.message.hops = <<>> THEN Undefined
    ELSE step'.message.hops[Len(step'.message.hops)]

\* C16: a CONNECT envelope the manager handles, whose last hop is the key of a
\* session of the table, creates a session with the uuid and type of the origin
\* and that session as gateway, WAITING_READY, and sends one READY envelope through
\* it; with no hop, or a last hop that is no key of the table, nothing is created
\* or sent and the table is unchanged.
C16_ConnectCreatesRelayedSession ==
    [][Local(CONNECT) =>
        /\ fired' = <<>>
        /\ IF LastHop \in Keys(sessions[step'.at])
           THEN /\ heap' = [heap EXCEPT ![step'.at] = Append(@,
                               [NewSession EXCEPT
                                   !.uuid = step'.message.originUUID,
                                   !.type = step'.message.originType,
                                   !.gateway = Lookup(sessions[step'.at], LastHop),
                                   !.status = "WAITING_READY",
                                   !.waiting = TRUE])]
                /\ Len(out') = 1
                /\ out'[1].message.action = READY
                /\ out'[1].message.originUUID = UUID(step'.at)
                /\ out'[1].session = step'.message.originUUID
                /\ out'[1].to = heap[step'.at][Lookup(sessions[step'.at], LastHop)].window
           ELSE /\ heap' = heap
                /\ sessions' = sessions
                /\ out' = <<>>]_vars

C16_Witness ==
    /\ step.op = "dispatch"
    /\ step.message.action = CONNECT
    /\ ~Redirected(step.at, step.message)
    /\ step.message.originUUID = 4
    /\ step.message.hops = <<4, 2>>
    /\ Len(heap[step.at]) = 3
    /\ heap[step.at][3].gateway = 1
    /\ heap[step.at][3].status = "WAITING_READY"

\* The sessions of the table, by position, whose type the event of the step asks for.
Hits ==
    {i \in 1..Len(sessions[step'.at]) :
        heap[step'.at][sessions[step'.at][i].ref].type
            = Field(step'.message, "destinationType")}

FirstHit == heap[step'.at][sessions[step'.at][CHOOSE i \in Hits : \A j \in Hits : i <= j].ref]

\* C17: a LOOKUP envelope the manager handles, from an origin that has a session,
\* is answered through that session by one envelope: LOOKUP_FOUND with the uuid
\* and type of the first session in table order of the destinationType, or
\* LOOKUP_NOT_FOUND when there is none; from an origin that has no session it is
\* not answered; the table is unchanged either way.
C17_LookupReply ==
    [][Local(LOOKUP) =>
        /\ sessions' = sessions
        /\ heap' = heap
        /\ IF step'.message.originUUID \in Keys(sessions[step'.at])
           THEN /\ Len(out') = 1
                /\ out'[1].session = step'.message.originUUID
                /\ out'[1].message.originUUID = UUID(step'.at)
                /\ IF Hits # {}
                   THEN /\ out'[1].message.action = LOOKUP_FOUND
                        /\ out'[1].message.data =
                              [uuid |-> FirstHit.uuid, type |-> FirstHit.type]
                   ELSE /\ out'[1].message.action = LOOKUP_NOT_FOUND
                        /\ "data" \notin DOMAIN out'[1].message
           ELSE out' = <<>>]_vars

C17_Witness ==
    /\ step.op = "dispatch"
    /\ step.message.action = LOOKUP
    /\ ~Redirected(step.at, step.message)
    /\ step.message.originUUID = 2
    /\ heap[1][1].type = 2
    /\ heap[1][2].type = 2
    /\ Len(out) = 1
    /\ out[1].message.action = LOOKUP_FOUND
    /\ out[1].message.data.uuid = 2

\* C18: in every table every key maps to a session whose uuid is the key, and no
\* session of a table is CLOSED.
C18_TableKeysAndStatus ==
    \A r \in Node : \A i \in 1..Len(sessions[r]) :
        /\ heap[r][sessions[r][i].ref].uuid = sessions[r][i].key
        /\ heap[r][sessions[r][i].ref].status # "CLOSED"

C18_Witness ==
    /\ 4 \in Keys(sessions[1])
    /\ heap[1][Lookup(sessions[1], 4)].status = "READY"
    /\ 2 \notin Keys(sessions[1])
    /\ heap[1][1].status = "CLOSED"
    /\ 1 \notin Keys(sessions[2])

Rank(status) ==
    CASE status = "CONNECTING" -> 0
      [] status = "WAITING_READY" -> 1
      [] status = "READY" -> 2
      [] status = "CLOSED" -> 3

\* C19: the status of a session only moves forward in the order CONNECTING,
\* WAITING_READY, READY, CLOSED: a CLOSED session stays CLOSED and a READY session
\* never goes back to WAITING_READY or CONNECTING.
C19_StatusMovesForward ==
    [][\A r \in Node : \A i \in 1..Len(heap[r]) :
          Rank(heap'[r][i].status) >= Rank(heap[r][i].status)]_vars

\* C19 for the sessions that are not CLOSED: their status only moves forward.
C19_OpenStatusMovesForward ==
    [][\A r \in Node : \A i \in 1..Len(heap[r]) :
          heap[r][i].status # "CLOSED" =>
              Rank(heap'[r][i].status) >= Rank(heap[r][i].status)]_vars

\* The application sends issued on a session, by number.
Issues(r, ref) == {k \in 1..Len(issued) : issued[k] = [at |-> r, ref |-> ref]}
\* Where on the wire the k-th application send was transmitted by its window.
Transmissions(k) ==
    {i \in 1..Len(wire) : wire[i] = [at |-> issued[k].at, payload |-> k]}
Buffered(s) == [j \in 1..Len(s.queue) |-> s.queue[j].data.payload]

RouteFound ==
    \E ref \in 1..Len(heap[1]) :
        heap[1][ref].uuid = UUID(4) /\ heap[1][ref].gateway = Lookup(sessions[1], UUID(2))
CalleeHolds ==
    \E ref \in 1..Len(heap[4]) :
        /\ heap[4][ref].uuid = UUID(1)
        /\ heap[4][ref].gateway # Null
        /\ heap[4][ref].gateway = Lookup(sessions[4], UUID(2))
CallerReady ==
    \E ref \in 1..Len(heap[1]) :
        /\ heap[1][ref].uuid = UUID(4)
        /\ heap[1][ref].gateway = Lookup(sessions[1], UUID(2))
        /\ heap[1][ref].status = "READY"

\* C21: when openSession at window 1 finds the type of window 4 through window 2,
\* window 4 comes to hold a session for window 1 whose gateway is its session for
\* window 2, and the session of window 1 for window 4 becomes READY: they are so
\* once every posted event has been dispatched.
C21_RouteCompletes == (RouteFound /\ ~Pending) => (CalleeHolds /\ CallerReady)

\* The first half alone: window 4 holds the session for window 1.
C21_CalleeHoldsSession == (RouteFound /\ ~Pending) => CalleeHolds

\* The READY of window 4 for window 1 ends at window 2: its dispatch posts nothing
\* and changes no session.
ReadyAtGateway ==
    /\ step'.op = "dispatch" /\ step'.at = 2 /\ step'.from = 4
    /\ step'.message.action = READY
    /\ Field(step'.message, "destinationUUID") = UUID(1)
C21_ReadyEndsAtGateway ==
    [][ReadyAtGateway => out' = <<>> /\ heap' = heap /\ sessions' = sessions]_vars
C21_ReadyReachesGateway ==
    /\ step.op = "dispatch" /\ step.at = 2 /\ step.from = 4
    /\ step.message.action = READY
    /\ Field(step.message, "destinationUUID") = UUID(1)

\* C22: one broadcast() invokes the onBroadcastMessage callback of each router at
\* most once, and never that of the router that called broadcast().
C22_CallbackAtMostOnce ==
    \A p \in 1..Len(casts) :
        /\ \A r \in Node : tally[r][p].called <= 1
        /\ tally[casts[p]][p].called = 0

\* What the cycle does give: the caller's callback is never invoked, that of each
\* other router once for each envelope it is handed, two at most.
C22_CallbackOncePerPath ==
    \A p \in 1..Len(casts) :
        /\ tally[casts[p]][p].called = 0
        /\ \A r \in Node :
              /\ tally[r][p].called <= 2
              /\ tally[r][p].called = (IF callbacks.router THEN tally[r][p].delivered ELSE 0)
C22_CalledTwice ==
    \E p \in 1..Len(casts) : \E r \in Node : tally[r][p].called = 2

\* C24: with two lookups of different types in flight at one router, each is
\* resolved by the responses to its own LOOKUP envelopes only: the session that
\* openSession(url, T) returned, once its lookup found a peer and while it waits
\* for that peer, has type T.
C24_ResolvedByOwnResponses ==
    \A r \in Node : \A k \in 1..Len(opened[r]) :
        LET s == heap[r][opened[r][k].ref]
        IN (s.gateway # Null /\ s.status = "WAITING_READY") => s.type = opened[r][k].type

\* C26: no router holds a session whose uuid is its own, and no LOOKUP_FOUND
\* names the requester itself as the match.
Replies ==
    {i \in 1..Len(out) : step.op = "dispatch" /\ step.message.action = LOOKUP
                         /\ out[i].message.action = LOOKUP_FOUND}
C26_NeverSelf ==
    /\ \A r \in Node : \A ref \in 1..Len(heap[r]) : heap[r][ref].uuid # UUID(r)
    /\ \A i \in Replies : out[i].message.data.uuid # step.message.originUUID

\* Each half alone.
C26_NoSessionForSelf ==
    \A r \in Node : \A ref \in 1..Len(heap[r]) : heap[r][ref].uuid # UUID(r)
C26_NeverAdvertisesRequester ==
    \A i \in Replies : out[i].message.data.uuid # step.message.originUUID

\* C27: every lookup invokes onFinish and retires its collector in the end: it
\* has done so once every posted event has been dispatched.
Retired ==
    \A r \in Node :
        /\ collectors[r] = <<>>
        /\ \A id \in 1..lookups[r] : Len(finished[r][id]) > 0
C27_LookupRetires == ~Pending => Retired

\* The sessions of the table of r that are relayed: they have a gateway.
Relayed(r) ==
    {i \in 1..Len(sessions[r]) : heap[r][sessions[r][i].ref].gateway # Null}
InTable(r, ref) == \E j \in 1..Len(sessions[r]) : sessions[r][j].ref = ref

\* C25: the gateway of every relayed session of a table is a session of the same
\* table that is not CLOSED.
C25_GatewayInTable ==
    \A r \in Node : \A i \in Relayed(r) :
        LET gateway == heap[r][sessions[r][i].ref].gateway
        IN InTable(r, gateway) /\ heap[r][gateway].status # "CLOSED"

\* A relayed session is in a table.
C25_RelayedInTable == \E r \in Node : Relayed(r) # {}

\* C23: one broadcast() makes finitely many BROADCAST envelopes: no envelope of
\* it makes more than MaxPath hops.
C23_BroadcastEnds ==
    \A pair \in Node \X Node : \A i \in 1..Len(chan[pair]) :
        chan[pair][i].action = BROADCAST => Len(chan[pair][i].hops) <= MaxPath

\* Windows 1 and 2 each hold, in the table, a session for window 3 whose gateway
\* is the session for the other.
Crossed ==
    /\ \E i \in Relayed(1) : /\ sessions[1][i].key = UUID(3)
                             /\ heap[1][heap[1][sessions[1][i].ref].gateway].window = 2
    /\ \E i \in Relayed(2) : /\ sessions[2][i].key = UUID(3)
                             /\ heap[2][heap[2][sessions[2][i].ref].gateway].window = 1

\* A close() has just taken the gateway of a relayed session out of the table and
\* left the relayed session in it.
C25_GatewayClosedUnderRelayed ==
    /\ step.op = "close"
    /\ \E i \in Relayed(step.at) :
          LET gateway == heap[step.at][sessions[step.at][i].ref].gateway
          IN ~InTable(step.at, gateway) /\ heap[step.at][gateway].status = "CLOSED"

====
